---- MODULE Spec2Model ----
(***************************************************************************)
(* Model of src/src/main.py: the signal rule (generate_signals), the       *)
(* single-position trade replay (simulate_trades) and the two batch passes *)
(* over the instrument universe (daily_check, second_check).               *)
(*                                                                         *)
(* A DataFrame is a record of columns; a column is a sequence indexed by   *)
(* row number 1..n (row 1 is the first timestamp, "t = 0" of the rule).    *)
(* A float cell is either NaN or <<v>> with v an integer; Python's None is *)
(* the empty tuple as well, a reference to the k-th dict of a list is      *)
(* <<k>>.  A quotient a / b * 100 is kept exact as the fraction            *)
(* [num |-> a * 100, den |-> b].                                           *)
(***************************************************************************)
EXTENDS Integers, Sequences, FiniteSets, TLC

\* ---------------------------------------------------------------- constants
RSI_BUY == 40
RSI_SELL == 70
PE_BUY_MAX == 25

\* ------------------------------------------------------------------- bounds
\* longest indicator frame handed to generate_signals
MaxRows == 2
\* longest signal frame replayed by simulate_trades on its own
MaxLen == 4

VARIABLES
    df,          \* the frame object second_check's variable df refers to
    pe_val,      \* the valuation ratio returned by fetch_pe, or None
    pc,          \* position of the per-instrument pipeline
    t,           \* row the loop of simulate_trades is about to visit
    position,    \* simulate_trades: None, or a reference into trades
    trades,      \* simulate_trades: list of trade dicts
    events,      \* history: the transitions simulate_trades has performed
    market,      \* per ticker, what yf.download and compute_indicators yield
    valuation,   \* per ticker, what fetch_pe yields
    stage,       \* position of main(): daily_check, then second_check
    cursor,      \* index into ETF_LIST of the ticker the running loop is at
    buy_signals, \* daily_check: the dicts analyze_etf returned
    summary,     \* second_check: the summary rows
    results,     \* second_check: the trade tables written, one per ticker
    outbox       \* the messages handed to Slack and to e-mail

pipevars == <<df, pe_val, pc, t, position, trades, events>>
batchvars == <<market, valuation, stage, cursor, buy_signals, summary, results, outbox>>
vars == <<pipevars, batchvars>>

\* ------------------------------------------------------------------ values
NaN == <<>>
None == <<>>
Num(v) == <<v>>
IsNum(x) == x # NaN

\* float comparisons: any comparison with NaN is False
Lt(a, b) == IsNum(a) /\ IsNum(b) /\ a[1] < b[1]
Gt(a, b) == IsNum(a) /\ IsNum(b) /\ a[1] > b[1]
Le(a, b) == IsNum(a) /\ IsNum(b) /\ a[1] <= b[1]
Ge(a, b) == IsNum(a) /\ IsNum(b) /\ a[1] >= b[1]

\* Series.shift(1): the first cell becomes NaN, the others move down one row
Shift1(s) == [i \in 1..Len(s) |-> IF i = 1 THEN NaN ELSE s[i - 1]]

\* d[k] = v on a dict, df[k] = column on a DataFrame
SetKey(d, k, v) == (k :> v) @@ d

NRows(f) == Len(f.Close)

\* ------------------------------------------------------- generate_signals
\* variant: the comparison of the previous row is left out
macd_cross_up_noprev(f) ==
    [i \in 1..NRows(f) |-> Gt(f.MACD[i], f.MACD_signal[i])]

macd_cross_up(f) ==
    [i \in 1..NRows(f) |-> /\ Gt(f.MACD[i], f.MACD_signal[i])
                           /\ Le(Shift1(f.MACD)[i], Shift1(f.MACD_signal)[i])]

macd_cross_down(f) ==
    [i \in 1..NRows(f) |-> /\ Lt(f.MACD[i], f.MACD_signal[i])
                           /\ Ge(Shift1(f.MACD)[i], Shift1(f.MACD_signal)[i])]

\* variant: a missing valuation blocks the buy flag
cond_pe_buy_required(pe) == IF pe = None THEN FALSE ELSE pe[1] < PE_BUY_MAX

cond_pe_buy(pe) == IF pe = None THEN TRUE ELSE pe[1] < PE_BUY_MAX
cond_pe_sell(pe) == IF pe = None THEN TRUE ELSE pe[1] > PE_BUY_MAX

buy_signal(f, pe) ==
    [i \in 1..NRows(f) |-> /\ Lt(f.RSI[i], Num(RSI_BUY))
                           /\ macd_cross_up(f)[i]
                           /\ Lt(f.Close[i], f.MA200[i])
                           /\ cond_pe_buy(pe)]

sell_signal(f, pe) ==
    [i \in 1..NRows(f) |-> /\ Gt(f.RSI[i], Num(RSI_SELL))
                           /\ macd_cross_down(f)[i]
                           /\ Gt(f.Close[i], f.MA200[i])
                           /\ cond_pe_sell(pe)]

\* variant: the shifted MACD column is stored back into the frame
generate_signals_shifted(f, pe) ==
    SetKey(SetKey(SetKey(f, "MACD", Shift1(f.MACD)),
                  "Buy_Signal", buy_signal(f, pe)),
           "Sell_Signal", sell_signal(f, pe))

\* the two column assignments are made on the frame that was passed in, and
\* that same frame is returned
generate_signals(f, pe) ==
    SetKey(SetKey(f, "Buy_Signal", buy_signal(f, pe)),
           "Sell_Signal", sell_signal(f, pe))

\* -------------------------------------------------------- simulate_trades
\* state of the loop: [position, trades, events]
SimInit == [position |-> None, trades |-> <<>>, events |-> <<>>]

\* variant: the return is taken relative to the exit price
profit_pct_on_exit(buy_price, sell_price) ==
    [num |-> (sell_price - buy_price) * 100, den |-> sell_price]

profit_pct(buy_price, sell_price) ==
    [num |-> (sell_price - buy_price) * 100, den |-> buy_price]

\* lines 196-197: a new dict is bound to position and appended to trades
OpenTrade(s, f, i) ==
    [position |-> <<Len(s.trades) + 1>>,
     trades   |-> Append(s.trades,
                         [buy_date |-> i, buy_price |-> f.Close[i][1]]),
     events   |-> Append(s.events, <<"open", i>>)]

\* lines 199-202: the dict position refers to gets its exit keys
CloseTrade(s, f, i) ==
    LET k == s.position[1]
        p == s.trades[k]
        sold == SetKey(SetKey(p, "sell_date", Num(i)),
                       "sell_price", Num(f.Close[i][1]))
    IN [position |-> None,
        trades   |-> [s.trades EXCEPT ![k] =
                         SetKey(sold, "profit_pct",
                                profit_pct(p.buy_price, f.Close[i][1]))],
        events   |-> Append(s.events, <<"close", i>>)]

\* variant: a buy flag opens a trade whether or not one is held
SimStepPyramid(s, f, i) ==
    IF f.Buy_Signal[i]
    THEN OpenTrade(s, f, i)
    ELSE IF f.Sell_Signal[i] /\ s.position # None
    THEN CloseTrade(s, f, i)
    ELSE s

\* variant: two independent tests, the sell first, so that a row carrying
\* both flags closes and re-opens
SimStepReenter(s, f, i) ==
    LET a == IF f.Sell_Signal[i] /\ s.position # None
             THEN CloseTrade(s, f, i) ELSE s
    IN IF f.Buy_Signal[i] /\ a.position = None
       THEN OpenTrade(a, f, i) ELSE a

\* one iteration of "for dt, row in df.iterrows()" on row i
SimStep(s, f, i) ==
    IF f.Buy_Signal[i] /\ s.position = None
    THEN OpenTrade(s, f, i)
    ELSE IF f.Sell_Signal[i] /\ s.position # None
    THEN CloseTrade(s, f, i)
    ELSE s

\* variant: a position still held at the end is dropped from the list
SimFinalDiscard(s) ==
    IF s.position # None
    THEN [s EXCEPT !.trades = SubSeq(@, 1, Len(@) - 1)]
    ELSE s

\* after the loop: a position still held gets its three exit keys set to None
SimFinal(s) ==
    IF s.position # None /\ "sell_date" \notin DOMAIN s.trades[s.position[1]]
    THEN LET k == s.position[1]
         IN [s EXCEPT !.trades[k] =
                SetKey(SetKey(SetKey(@, "sell_date", None),
                              "sell_price", None), "profit_pct", None)]
    ELSE s

\* ------------------------------------------------------------ input frames
RSIVals == {NaN, Num(39), Num(71)}
MACDVals == {NaN, Num(0), Num(1), Num(2)}
SignalVals == {NaN, Num(1)}
CloseVals == {Num(1), Num(3)}
MAVals == {NaN, Num(2)}
PEVals == {None, Num(24), Num(25), Num(26)}

\* RSI, MACD and its signal line are NaN during their warm-up and defined from
\* then on; the rolling mean follows the same shape
Warmup(s) == \A i \in 2..Len(s) : s[i] = NaN => s[i - 1] = NaN
Column(vals, n) == {s \in [1..n -> vals] : Warmup(s)}

\* what compute_indicators hands on: one cell per column and timestamp
IndicatorFrames ==
    UNION {[Close : [1..n -> CloseVals], RSI : Column(RSIVals, n),
            MACD : Column(MACDVals, n), MACD_signal : Column(SignalVals, n),
            MA200 : Column(MAVals, n)] : n \in 1..MaxRows}

\* frames that already carry the two flag columns, any flags at all
SignalFrames ==
    UNION {[Close : [1..n -> CloseVals], Buy_Signal : [1..n -> BOOLEAN],
            Sell_Signal : [1..n -> BOOLEAN]] : n \in 1..MaxLen}

\* ------------------------------------------------------------ the batch
\* the head of the 27-ticker universe
ETF_LIST == <<"VOO", "SPY">>
Tickers == {ETF_LIST[j] : j \in DOMAIN ETF_LIST}

Columns == {"Close", "RSI", "MACD", "MACD_signal", "MA200"}

\* yf.download followed by compute_indicators: an exception, or a frame,
\* which is empty when there is no data.  daily_check asks for one year and
\* second_check for two; both read the instrument's entry of market, whose
\* last rows are the same days.
Download(raises, frame) == [raises |-> raises, frame |-> frame]
NoData == Download(FALSE, [c \in Columns |-> <<>>])
Fault == Download(TRUE, [c \in Columns |-> <<>>])

\* the last two rows of an instrument's indicator frame: the row before the
\* latest one with MACD below or on its signal line, the latest row free
YesterdayRows ==
    [Close : {Num(1)}, RSI : {Num(39)}, MACD : {Num(0), Num(1)},
     MACD_signal : {Num(1)}, MA200 : {Num(2)}]
TodayRows ==
    [Close : CloseVals, RSI : RSIVals, MACD : {Num(0), Num(2)},
     MACD_signal : {Num(1)}, MA200 : {Num(2)}]
OneRow(r) == [c \in Columns |-> <<r[c]>>]
TwoRows(y, r) == [c \in Columns |-> <<y[c], r[c]>>]
Downloads ==
    {NoData, Fault} \cup {Download(FALSE, OneRow(r)) : r \in YesterdayRows}
        \cup {Download(FALSE, TwoRows(y, r)) : y \in YesterdayRows, r \in TodayRows}
BatchPEVals == {None, Num(24), Num(26)}

HasData(d) == ~d.raises /\ NRows(d.frame) > 0

\* variant: the previous row may lie on the signal line
analyze_etf_on_line(ticker, d) ==
    IF ~HasData(d) THEN None
    ELSE IF NRows(d.frame) < 2 THEN None
    ELSE LET data == d.frame
             n == NRows(data)
         IN IF ~IsNum(data.RSI[n]) \/ ~IsNum(data.MACD[n])
                  \/ ~IsNum(data.MACD_signal[n])
            THEN None
            ELSE IF /\ Le(data.MACD[n - 1], data.MACD_signal[n - 1])
                    /\ Gt(data.MACD[n], data.MACD_signal[n])
                    /\ Lt(data.RSI[n], Num(RSI_BUY))
            THEN [ticker |-> ticker, price |-> data.Close[n],
                  rsi |-> data.RSI[n], macd |-> data.MACD[n],
                  macd_signal |-> data.MACD_signal[n], date |-> n]
            ELSE None

\* a buy-signal dict or None; d is what the download and compute_indicators
\* gave for the ticker; no data, or any exception, ends in None
analyze_etf(ticker, d) ==
    IF ~HasData(d) THEN None
    ELSE IF NRows(d.frame) < 2 THEN None
    ELSE LET data == d.frame
             n == NRows(data)
         IN IF ~IsNum(data.RSI[n]) \/ ~IsNum(data.MACD[n])
                  \/ ~IsNum(data.MACD_signal[n])
            THEN None
            ELSE IF /\ Lt(data.MACD[n - 1], data.MACD_signal[n - 1])
                    /\ Gt(data.MACD[n], data.MACD_signal[n])
                    /\ Lt(data.RSI[n], Num(RSI_BUY))
            THEN [ticker |-> ticker, price |-> data.Close[n],
                  rsi |-> data.RSI[n], macd |-> data.MACD[n],
                  macd_signal |-> data.MACD_signal[n], date |-> n]
            ELSE None

\* the whole of simulate_trades: the loop over the rows, then the last lines
RECURSIVE SimLoop(_, _, _)
SimLoop(s, f, i) ==
    IF i > NRows(f) THEN s ELSE SimLoop(SimStep(s, f, i), f, i + 1)
simulate_trades(f) == SimFinal(SimLoop(SimInit, f, 1)).trades

\* min(latest_ma200, latest_close * 0.97), in hundredths
recommended_buy_price(ma200, close) ==
    IF IsNum(ma200) /\ 97 * close[1] < 100 * ma200[1]
    THEN [num |-> 97 * close[1], den |-> 100]
    ELSE IF IsNum(ma200) THEN [num |-> 100 * ma200[1], den |-> 100]
    ELSE NaN

\* the row second_check appends for one ticker, from the flagged frame
SummaryRow(ticker, pe, f) ==
    LET n == NRows(f)
    IN [Ticker |-> ticker, PE |-> pe, Latest_Close |-> f.Close[n],
        MA200 |-> f.MA200[n],
        Buy_Signal_Today |-> f.Buy_Signal[n],
        Sell_Signal_Today |-> f.Sell_Signal[n],
        Recommended_Buy_Price |-> recommended_buy_price(f.MA200[n], f.Close[n])]

\* the message daily_check sends: the digest, or the sentinel
DailyMessage(signals) ==
    IF signals # <<>>
    THEN [kind |-> "buy_signals", lines |-> signals]
    ELSE [kind |-> "no_buy_signals", lines |-> <<>>]

\* the Slack text of second_check: four columns of the first ten rows
TopRows(rows) ==
    [j \in 1..(IF Len(rows) < 10 THEN Len(rows) ELSE 10) |->
        [Ticker |-> rows[j].Ticker,
         Buy_Signal_Today |-> rows[j].Buy_Signal_Today,
         Sell_Signal_Today |-> rows[j].Sell_Signal_Today,
         Recommended_Buy_Price |-> rows[j].Recommended_Buy_Price]]

\* one iteration of the loop of daily_check
DailyIter ==
    /\ stage = "daily_check"
    /\ cursor <= Len(ETF_LIST)
    /\ LET signal == analyze_etf(ETF_LIST[cursor], market[ETF_LIST[cursor]])
       IN buy_signals' = IF signal # None THEN Append(buy_signals, signal)
                         ELSE buy_signals
    /\ cursor' = cursor + 1
    /\ UNCHANGED <<market, valuation, stage, summary, results, outbox, pipevars>>

\* the end of daily_check; main() goes on to second_check
DailySend ==
    /\ stage = "daily_check"
    /\ cursor > Len(ETF_LIST)
    /\ outbox' = Append(outbox, DailyMessage(buy_signals))
    /\ stage' = "second_check"
    /\ cursor' = 1
    /\ UNCHANGED <<market, valuation, buy_signals, summary, results, pipevars>>

\* one iteration of the loop of second_check on a ticker that has data
SecondIter ==
    /\ stage = "second_check"
    /\ cursor <= Len(ETF_LIST)
    /\ HasData(market[ETF_LIST[cursor]])
    /\ LET ticker == ETF_LIST[cursor]
           pe == valuation[ticker]
           f == generate_signals(market[ticker].frame, pe)
       IN /\ results' = Append(results, [ticker |-> ticker,
                                         trades |-> simulate_trades(f)])
          /\ summary' = Append(summary, SummaryRow(ticker, pe, f))
    /\ cursor' = cursor + 1
    /\ UNCHANGED <<market, valuation, stage, buy_signals, outbox, pipevars>>

\* fetch_price_df raises SystemExit on an empty frame, and an exception of
\* the download is not caught either: the process ends inside the loop
SecondAbort ==
    /\ stage = "second_check"
    /\ cursor <= Len(ETF_LIST)
    /\ ~HasData(market[ETF_LIST[cursor]])
    /\ stage' = "aborted"
    /\ UNCHANGED <<market, valuation, cursor, buy_signals, summary, results, outbox,
                   pipevars>>

\* the end of second_check: the summary goes to Slack and to e-mail
SecondSend ==
    /\ stage = "second_check"
    /\ cursor > Len(ETF_LIST)
    /\ outbox' = outbox \o <<[kind |-> "summary", lines |-> TopRows(summary)],
                            [kind |-> "email", lines |-> summary]>>
    /\ stage' = "done"
    /\ UNCHANGED <<market, valuation, cursor, buy_signals, summary, results, pipevars>>

\* ----------------------------------------------------------------- actions
CallGenerateSignals ==
    /\ pc = "signals"
    /\ df' = generate_signals(df, pe_val)
    /\ pc' = "simulate"
    /\ UNCHANGED <<pe_val, t, position, trades, events, batchvars>>

SimIter ==
    /\ pc = "simulate"
    /\ t <= NRows(df)
    /\ LET s == SimStep([position |-> position, trades |-> trades,
                         events |-> events], df, t)
       IN /\ position' = s.position
          /\ trades' = s.trades
          /\ events' = s.events
    /\ t' = t + 1
    /\ UNCHANGED <<df, pe_val, pc, batchvars>>

SimReturn ==
    /\ pc = "simulate"
    /\ t > NRows(df)
    /\ LET s == SimFinal([position |-> position, trades |-> trades,
                          events |-> events])
       IN /\ position' = s.position
          /\ trades' = s.trades
          /\ events' = s.events
    /\ pc' = "done"
    /\ UNCHANGED <<df, pe_val, t, batchvars>>

\* ---------------------------------------------------------- specifications
\* main() has not started: the batch variables of a run of one pipeline
BatchIdle ==
    /\ market = <<>>
    /\ valuation = <<>>
    /\ stage = "idle"
    /\ cursor = 1
    /\ buy_signals = <<>>
    /\ summary = <<>>
    /\ results = <<>>
    /\ outbox = <<>>

\* one instrument: indicators -> generate_signals -> simulate_trades
Init ==
    /\ df \in IndicatorFrames
    /\ pe_val \in PEVals
    /\ pc = "signals"
    /\ t = 1
    /\ position = SimInit.position
    /\ trades = SimInit.trades
    /\ events = SimInit.events
    /\ BatchIdle

Next == CallGenerateSignals \/ SimIter \/ SimReturn

Spec == Init /\ [][Next]_vars

\* simulate_trades alone, on any frame with flag columns
InitSim ==
    /\ df \in SignalFrames
    /\ pe_val = None
    /\ pc = "simulate"
    /\ t = 1
    /\ position = SimInit.position
    /\ trades = SimInit.trades
    /\ events = SimInit.events
    /\ BatchIdle

NextSim == SimIter \/ SimReturn

SpecSim == InitSim /\ [][NextSim]_vars

\* main(): daily_check, then second_check, over the whole universe
InitBatch ==
    /\ market \in [Tickers -> Downloads]
    /\ valuation \in [Tickers -> BatchPEVals]
    /\ stage = "daily_check"
    /\ cursor = 1
    /\ buy_signals = <<>>
    /\ summary = <<>>
    /\ results = <<>>
    /\ outbox = <<>>
    /\ df = <<>>
    /\ pe_val = None
    /\ pc = "idle"
    /\ t = 1
    /\ position = SimInit.position
    /\ trades = SimInit.trades
    /\ events = SimInit.events

NextBatch == DailyIter \/ DailySend \/ SecondIter \/ SecondAbort \/ SecondSend

SpecBatch == InitBatch /\ [][NextBatch]_vars

\* ------------------------------------------------------------- properties
IsOpen(tr) == "sell_date" \notin DOMAIN tr \/ tr.sell_date = None
IsClosed(tr) == ~IsOpen(tr)
CountKind(ev, kind) == Cardinality({j \in DOMAIN ev : ev[j][1] = kind})
Happened(kind, i) == \E j \in DOMAIN events : events[j] = <<kind, i>>
Flagged(f) == {"Buy_Signal", "Sell_Signal"} \subseteq DOMAIN f

\* C1: after every processed timestamp at most one trade of the list is open,
\* and the opens performed so far exceed the closes by 0 or by 1.
C1_AtMostOneOpenTrade ==
    /\ Cardinality({k \in DOMAIN trades : IsOpen(trades[k])}) <= 1
    /\ CountKind(events, "open") - CountKind(events, "close") \in {0, 1}

\* a second trade is open after the first one was closed
C1_Witness ==
    /\ CountKind(events, "open") = 2
    /\ CountKind(events, "close") = 1
    /\ Cardinality({k \in DOMAIN trades : IsOpen(trades[k])}) = 1

\* what the rule allows on row t, written on the variables of simulate_trades
C2Step ==
    LET buy == df.Buy_Signal[t]
        sell == df.Sell_Signal[t]
        close == df.Close[t][1]
    IN IF position = None
       THEN IF buy
            THEN /\ trades' = Append(trades, [buy_date |-> t, buy_price |-> close])
                 /\ position' = <<Len(trades')>>
                 /\ events' = Append(events, <<"open", t>>)
            ELSE UNCHANGED <<position, trades, events>>
       ELSE IF sell
            THEN /\ position' = None
                 /\ Len(trades') = Len(trades)
                 /\ \A k \in DOMAIN trades :
                        IF <<k>> = position
                        THEN /\ trades'[k].buy_date = trades[k].buy_date
                             /\ trades'[k].buy_price = trades[k].buy_price
                             /\ trades'[k].sell_date = Num(t)
                             /\ trades'[k].sell_price = Num(close)
                        ELSE trades'[k] = trades[k]
                 /\ events' = Append(events, <<"close", t>>)
            ELSE UNCHANGED <<position, trades, events>>

\* C2: each iteration makes at most one transition: Flat and Buy opens at
\* (t, Close[t]) and a Sell is ignored; Long and Sell closes at (t, Close[t]),
\* a Buy is ignored and nothing is re-opened on that row.
C2_OneTransitionPerTimestamp ==
    [][(pc = "simulate" /\ t <= NRows(df)) => C2Step]_vars

\* a row carrying both flags was met while Long: closed there, not re-opened
C2_Witness ==
    \E i \in 1..(t - 1) :
        /\ df.Buy_Signal[i] /\ df.Sell_Signal[i]
        /\ Happened("close", i)
        /\ ~Happened("open", i)

\* C3: Long at the end of the series: the trade is still the last of the
\* returned list, entry set, exit date, exit price and profit percent None.
C3_OpenTradeRetained ==
    (pc = "done" /\ events # <<>> /\ events[Len(events)][1] = "open") =>
        /\ Len(trades) = CountKind(events, "open")
        /\ LET tr == trades[Len(trades)]
               i == events[Len(events)][2]
           IN /\ tr.buy_date = i
              /\ tr.buy_price = df.Close[i][1]
              /\ {"sell_date", "sell_price", "profit_pct"} \subseteq DOMAIN tr
              /\ tr.sell_date = None
              /\ tr.sell_price = None
              /\ tr.profit_pct = None

\* returned with a closed trade first and a trade entered before the last row
\* still open, the last close differing from its entry price
C3_Witness ==
    /\ pc = "done"
    /\ Len(trades) = 2
    /\ IsOpen(trades[2])
    /\ trades[2].buy_date < NRows(df)
    /\ df.Close[NRows(df)][1] # trades[2].buy_price

Defined(f, i) ==
    /\ IsNum(f.RSI[i]) /\ IsNum(f.MACD[i]) /\ IsNum(f.MACD_signal[i])
    /\ IsNum(f.MA200[i])

\* C5: on every row i >= 2 whose indicators are defined at i and whose MACD
\* and signal line are defined at i - 1, the flags are the four-factor rule,
\* a missing valuation counting as satisfied.
C5_SignalRule ==
    pc # "signals" =>
        \A i \in 2..NRows(df) :
            (Defined(df, i) /\ IsNum(df.MACD[i - 1]) /\ IsNum(df.MACD_signal[i - 1])) =>
                /\ df.Buy_Signal[i] =
                      (/\ df.RSI[i][1] < RSI_BUY
                       /\ df.MACD[i][1] > df.MACD_signal[i][1]
                       /\ df.MACD[i - 1][1] <= df.MACD_signal[i - 1][1]
                       /\ df.Close[i][1] < df.MA200[i][1]
                       /\ (pe_val = None \/ pe_val[1] < PE_BUY_MAX))
                /\ df.Sell_Signal[i] =
                      (/\ df.RSI[i][1] > RSI_SELL
                       /\ df.MACD[i][1] < df.MACD_signal[i][1]
                       /\ df.MACD[i - 1][1] >= df.MACD_signal[i - 1][1]
                       /\ df.Close[i][1] > df.MA200[i][1]
                       /\ (pe_val = None \/ pe_val[1] > PE_BUY_MAX))

\* the buy flag is set on a defined row although there is no valuation
C5_Witness ==
    /\ pc # "signals"
    /\ pe_val = None
    /\ \E i \in 2..NRows(df) :
           /\ Defined(df, i) /\ IsNum(df.MACD[i - 1]) /\ IsNum(df.MACD_signal[i - 1])
           /\ df.Buy_Signal[i]

Undefined(f, i) == ~Defined(f, i)

\* C6: both flags are false on the first row and on every row where RSI,
\* MACD, the signal line or the moving average is NaN, and simulate_trades
\* makes no transition on such a row.
C6_NoSignalWithoutHistory ==
    pc # "signals" =>
        \A i \in 1..NRows(df) :
            (i = 1 \/ Undefined(df, i)) =>
                /\ ~df.Buy_Signal[i]
                /\ ~df.Sell_Signal[i]
                /\ ~Happened("open", i)
                /\ ~Happened("close", i)

\* the replay has passed a row where only the missing RSI kept the buy flag
\* down, and has made no transition at all
C6_Witness ==
    /\ pc = "done"
    /\ events = <<>>
    /\ \E i \in 2..NRows(df) :
           /\ df.RSI[i] = NaN
           /\ Gt(df.MACD[i], df.MACD_signal[i])
           /\ Le(df.MACD[i - 1], df.MACD_signal[i - 1])
           /\ Lt(df.Close[i], df.MA200[i])

\* C7: a closed trade carries the close of its entry row, the close of its
\* exit row and (exit - entry) / entry * 100.
C7_ClosedTradeFigures ==
    \A k \in DOMAIN trades :
        IsClosed(trades[k]) =>
            LET tr == trades[k]
                entry == df.Close[tr.buy_date][1]
                exit == df.Close[tr.sell_date[1]][1]
            IN /\ tr.buy_price = entry
               /\ tr.sell_price = Num(exit)
               /\ tr.profit_pct.den # 0
               /\ tr.profit_pct.num * entry = (exit - entry) * 100 * tr.profit_pct.den

\* a trade entered at 1 and left at 3
C7_Witness ==
    \E k \in DOMAIN trades :
        /\ IsClosed(trades[k])
        /\ trades[k].buy_price = 1
        /\ trades[k].sell_price = Num(3)

C10_TradesOrderedDisjoint ==
    \A k \in DOMAIN trades :
        /\ k < Len(trades) => IsClosed(trades[k])
        /\ IsClosed(trades[k]) => trades[k].sell_date[1] > trades[k].buy_date
        /\ k > 1 =>
              /\ trades[k].buy_date > trades[k - 1].buy_date
              /\ IsClosed(trades[k - 1])
              /\ trades[k].buy_date > trades[k - 1].sell_date[1]

\* two closed trades, the second entered on the row after the first exit
C10_Witness ==
    /\ Len(trades) = 2
    /\ IsClosed(trades[1])
    /\ IsClosed(trades[2])
    /\ trades[2].buy_date = trades[1].sell_date[1] + 1

\* the tickers whose download gave a price series, in universe order
Usable == SelectSeq(ETF_LIST, LAMBDA x : HasData(market[x]))

\* C4: an instrument without data, or whose download fails, is skipped and
\* nothing else: the run is never cut short, the notification pass sends its
\* message and the report pass ends with one summary row and one trade table
\* for every instrument that has data (stated for the runs in which at least
\* one instrument has data).
C4_BadInstrumentOnlySkipped ==
    /\ Usable # <<>> => stage # "aborted"
    /\ stage \in {"second_check", "done"} => Len(outbox) >= 1
    /\ stage = "done" =>
          /\ [j \in DOMAIN summary |-> summary[j].Ticker] = Usable
          /\ [j \in DOMAIN results |-> results[j].ticker] = Usable

\* the flags of the SignalGenerator rule on the latest row of an instrument
LatestFlag(ticker) ==
    /\ HasData(market[ticker])
    /\ LET f == generate_signals(market[ticker].frame, valuation[ticker])
       IN f.Buy_Signal[NRows(f)] \/ f.Sell_Signal[NRows(f)]

Listed(msg) == {msg.lines[j].ticker : j \in DOMAIN msg.lines}

\* C8 as stated: the digest lists an instrument only if one of its flags of
\* the SignalGenerator rule is true on the latest row, and the sentinel is
\* what is sent when no instrument has such a flag.
C8_DigestOnlyFlaggedInstruments ==
    outbox # <<>> =>
        /\ outbox[1].kind = "buy_signals" =>
              \A x \in Listed(outbox[1]) : LatestFlag(x)
        /\ (\A x \in Tickers : ~LatestFlag(x)) => outbox[1].kind = "no_buy_signals"

\* the rule of the notification pass, on the last two rows of the frame
DailyHit(ticker) ==
    LET d == market[ticker]
        f == d.frame
        n == NRows(f)
    IN /\ ~d.raises
       /\ n >= 2
       /\ IsNum(f.RSI[n]) /\ IsNum(f.MACD[n]) /\ IsNum(f.MACD_signal[n])
       /\ IsNum(f.MACD[n - 1]) /\ IsNum(f.MACD_signal[n - 1])
       /\ f.RSI[n][1] < RSI_BUY
       /\ f.MACD[n][1] > f.MACD_signal[n][1]
       /\ f.MACD[n - 1][1] < f.MACD_signal[n - 1][1]

\* C8 amended: the digest of daily_check lists an instrument only if, on the
\* latest row, RSI, MACD and the signal line are defined, RSI < RSI_BUY,
\* MACD > signal, and MACD < signal strictly on the row before; the moving
\* average, the valuation and the sell conditions play no part.  When no
\* instrument meets this rule the sentinel is sent instead.
C8_DigestListsDailyHits ==
    outbox # <<>> =>
        /\ outbox[1].kind \in {"buy_signals", "no_buy_signals"}
        /\ outbox[1].kind = "buy_signals" =>
              /\ Listed(outbox[1]) # {}
              /\ \A x \in Listed(outbox[1]) : DailyHit(x)
        /\ (\A x \in Tickers : ~DailyHit(x)) => outbox[1].kind = "no_buy_signals"

\* a digest went out that lists an instrument neither of whose flags is true
\* and leaves out an instrument that has a true flag
C8_Witness ==
    /\ outbox # <<>>
    /\ outbox[1].kind = "buy_signals"
    /\ \E x \in Listed(outbox[1]) : DailyHit(x) /\ ~LatestFlag(x)
    /\ \E x \in Tickers \ Listed(outbox[1]) : ~DailyHit(x) /\ LatestFlag(x)

====
